---------------------------- MODULE Spec2Model ----------------------------
(***************************************************************************)
(* Model of src/hydroperiod_calculator.py: the HydroperiodCalculator class *)
(* and the script that drives it.                                          *)
(*                                                                         *)
(* A directory listing is a sequence of files (os.listdir gives them in    *)
(* an arbitrary order).  A file name is a date stem "Y_M_D" kept as the    *)
(* three digit strings it is written with, plus an extension.  A raster is *)
(* a 2-D array: its shape and its pixels in row-major order.  Pixel values *)
(* are float64 in the code; the model draws them from small integers.      *)
(***************************************************************************)
EXTENDS Integers, Sequences, FiniteSets, TLC

\* Largest number of files in the directory.
MaxFiles == 3

---------------------------------------------------------------------------
(* Rasters *)

RowOf(shape, k) == ((k - 1) \div shape[2]) + 1
ColOf(shape, k) == ((k - 1) % shape[2]) + 1

Positions(shape) == (1..shape[1]) \X (1..shape[2])

At(a, r, c) == a.px[(r - 1) * a.shape[2] + c]

InShape(shape, r, c) == r \in 1..shape[1] /\ c \in 1..shape[2]

\* np.full((x, y), v)
Full(shape, v) ==
    [shape |-> shape, px |-> [k \in 1..(shape[1] * shape[2]) |-> v]]

Max2(a, b) == IF a >= b THEN a ELSE b

\* numpy broadcasting of two 2-D operands
BroadcastOK(s1, s2) ==
    \A k \in 1..2 : s1[k] = s2[k] \/ s1[k] = 1 \/ s2[k] = 1

BroadcastShape(s1, s2) == <<Max2(s1[1], s2[1]), Max2(s1[2], s2[2])>>

BAt(a, r, c) ==
    At(a, IF a.shape[1] = 1 THEN 1 ELSE r, IF a.shape[2] = 1 THEN 1 ELSE c)

\* arrays[i] + arrays[i + 1]
AddArrays(a, b) ==
    LET bs == BroadcastShape(a.shape, b.shape)
    IN  [shape |-> bs,
         px    |-> [k \in 1..(bs[1] * bs[2]) |->
                       BAt(a, RowOf(bs, k), ColOf(bs, k))
                         + BAt(b, RowOf(bs, k), ColOf(bs, k))]]

\* No array (None, or a name not yet bound)
NoArray == [shape |-> <<0, 0>>, px |-> <<>>]

Px1(v)    == [shape |-> <<1, 1>>, px |-> <<v>>]
Wide(v, w) == [shape |-> <<1, 2>>, px |-> <<v, w>>]

---------------------------------------------------------------------------
(* File names and dates *)

\* file.lower()
Lower(ext) ==
    CASE ext = "TIF"  -> "tif"
      [] ext = "TIFF" -> "tiff"
      [] OTHER        -> ext

\* file.lower().endswith(('.tif', '.tiff'))
IsTif(name) == Lower(name.ext) \in {"tif", "tiff"}

\* file.split('.')[0]
DateStr(name) == [y |-> name.y, m |-> name.m, d |-> name.d]

RECURSIVE DigitsVal(_)
DigitsVal(s) ==
    IF Len(s) = 0 THEN 0
    ELSE 10 * DigitsVal(SubSeq(s, 1, Len(s) - 1)) + s[Len(s)]

IsLeap(y) == (y % 4 = 0) /\ ((y % 100 # 0) \/ (y % 400 = 0))

DaysInMonth(y, m) ==
    CASE m \in {4, 6, 9, 11} -> 30
      [] m = 2               -> IF IsLeap(y) THEN 29 ELSE 28
      [] OTHER               -> 31

\* datetime.strptime(date_str, '%Y_%m_%d') succeeds: %Y is four digits, %m
\* and %d are one or two digits (a leading zero is optional), and the
\* fields name a day of the calendar.
ParseOK(ds) ==
    /\ Len(ds.y) = 4 /\ DigitsVal(ds.y) >= 1
    /\ Len(ds.m) \in {1, 2} /\ DigitsVal(ds.m) \in 1..12
    /\ Len(ds.d) \in {1, 2} /\ DigitsVal(ds.d) >= 1
    /\ DigitsVal(ds.d) <= DaysInMonth(DigitsVal(ds.y), DigitsVal(ds.m))

RECURSIVE DaysBeforeMonth(_, _)
DaysBeforeMonth(y, m) ==
    IF m <= 1 THEN 0
    ELSE DaysBeforeMonth(y, m - 1) + DaysInMonth(y, m - 1)

DaysBeforeYear(y) ==
    (y - 1) * 365 + ((y - 1) \div 4) - ((y - 1) \div 100) + ((y - 1) \div 400)

\* The datetime a date string parses to, as its day number (all parsed
\* datetimes are at midnight, so (a - b).days is the difference of these).
Strptime(ds) ==
    DaysBeforeYear(DigitsVal(ds.y))
      + DaysBeforeMonth(DigitsVal(ds.y), DigitsVal(ds.m))
      + DigitsVal(ds.d)

Name(y, m, d, ext) == [y |-> y, m |-> m, d |-> d, ext |-> ext]

Y2019 == <<2, 0, 1, 9>>
Y2020 == <<2, 0, 2, 0>>

\* The files a directory may hold: a name, whether gdal can open it, and
\* the array gdal reads from it.  Two names write the same day with and
\* without leading zeros, two share a date stem, one has an invalid month
\* and one is not a tif.
Jan05      == Name(Y2020, <<0, 1>>, <<0, 5>>, "tif")
Jan5Short  == Name(Y2020, <<1>>, <<5>>, "tif")
Jan05Tiff  == Name(Y2020, <<0, 1>>, <<0, 5>>, "TIFF")
Feb24      == Name(Y2020, <<0, 2>>, <<2, 4>>, "tif")
Dec31      == Name(Y2019, <<1, 2>>, <<3, 1>>, "tif")
BadMonth   == Name(Y2020, <<1, 3>>, <<0, 1>>, "tif")
NotTif     == Name(Y2020, <<0, 1>>, <<0, 5>>, "txt")

FileNames == {Jan05, Jan5Short, Jan05Tiff, Feb24, Dec31, BadMonth, NotTif}

File(n, readable, content) ==
    [name |-> n, readable |-> readable, content |-> content]

FilesNamed(name) ==
    CASE name = Jan05     -> {File(name, TRUE, Px1(v)) : v \in {0, 1, 2}}
      [] name = Dec31     -> {File(name, TRUE, Px1(v)) : v \in {0, 1, 2}}
      [] name = Feb24     -> {File(name, TRUE, c) : c \in {Px1(1), Px1(2), Wide(1, 1)}}
      [] name = Jan5Short -> {File(name, TRUE, c) : c \in {Px1(1), Wide(0, 1)}}
      [] name = Jan05Tiff -> {File(name, TRUE, Px1(0)), File(name, FALSE, NoArray)}
      [] OTHER            -> {File(name, FALSE, NoArray)}

Files == UNION {FilesNamed(n) : n \in FileNames}

\* Directory listings: up to MaxFiles files with distinct names, any order.
Listings ==
    UNION {{s \in [1..k -> Files] :
              \A i, j \in 1..k : i # j => s[i].name # s[j].name} : k \in 0..MaxFiles}

---------------------------------------------------------------------------
(* The dictionary self.tif_files: entries in insertion order *)

Keys(d) == {d[i].key : i \in 1..Len(d)}

\* d[k] = v : a new key is appended, an existing key keeps its place.
DictSet(d, k, v) ==
    IF k \in Keys(d)
    THEN [i \in 1..Len(d) |-> IF d[i].key = k THEN [key |-> k, arr |-> v] ELSE d[i]]
    ELSE Append(d, [key |-> k, arr |-> v])

---------------------------------------------------------------------------
(* extract_days_between_and_arrays *)

RECURSIVE InsertSorted(_, _)
InsertSorted(s, x) ==
    IF Len(s) = 0 THEN <<x>>
    ELSE IF x < s[Len(s)]
         THEN Append(InsertSorted(SubSeq(s, 1, Len(s) - 1), x), s[Len(s)])
         ELSE Append(s, x)

RECURSIVE SortSeqAsc(_)
SortSeqAsc(s) ==
    IF Len(s) = 0 THEN <<>>
    ELSE InsertSorted(SortSeqAsc(SubSeq(s, 1, Len(s) - 1)), s[Len(s)])

\* The keys parsed, in the dictionary's order.
ParsedKeys(tf) == [i \in 1..Len(tf) |-> Strptime(tf[i].key)]

InsertionOrderDates(tf) == ParsedKeys(tf)

\* dates = sorted([datetime.strptime(date, ...) for date in tif_files.keys()])
SortedDates(tf) == SortSeqAsc(ParsedKeys(tf))

\* days_between = [0], then one (dates[i+1] - dates[i]).days per i
DaysBetween(dates) ==
    <<0>> \o [i \in 1..(Len(dates) - 1) |-> dates[i + 1] - dates[i]]

\* arrays = [value for value in self.tif_files.values()]
Values(tf) == [i \in 1..Len(tf) |-> tf[i].arr]

ExtractDaysBetweenAndArrays(tf) ==
    [days_between |-> DaysBetween(SortedDates(tf)), arrays |-> Values(tf)]

---------------------------------------------------------------------------
(* hydroperiod_calculation *)

HalfRoundedUp(gap) == (gap + 1) \div 2

\* int(gap / 2): the quotient cut towards zero
HalfGap(gap) == IF gap >= 0 THEN gap \div 2 ELSE -((-gap) \div 2)

\* hb[np.where(sum == s)] = v raises IndexError when a position where the
\* sum is s lies outside hb.
AssignOutOfBounds(hb, sum, s) ==
    \E pos \in Positions(sum.shape) :
        At(sum, pos[1], pos[2]) = s /\ ~InShape(hb.shape, pos[1], pos[2])

\* hb[np.where(sum == s)] = v
MaskedAssign(hb, sum, s, v) ==
    [shape |-> hb.shape,
     px    |-> [k \in 1..Len(hb.px) |->
                   IF /\ InShape(sum.shape, RowOf(hb.shape, k), ColOf(hb.shape, k))
                      /\ At(sum, RowOf(hb.shape, k), ColOf(hb.shape, k)) = s
                   THEN v ELSE hb.px[k]]]

\* One pass of the loop over consecutive arrays a, b with the gap
\* days_between[i + 1]: the interval raster, or the exception raised.
HydroperiodBetweenTwoDates(shape, a, b, gap) ==
    IF ~BroadcastOK(a.shape, b.shape)
    THEN [error |-> "ValueError", raster |-> NoArray]
    ELSE LET sum_of_arrays == AddArrays(a, b)
             h0 == Full(shape, -1)
             h1 == MaskedAssign(h0, sum_of_arrays, 0, 0)
             h2 == MaskedAssign(h1, sum_of_arrays, 1, HalfGap(gap))
             h3 == MaskedAssign(h2, sum_of_arrays, 2, gap)
         IN  IF \E s \in {0, 1, 2} : AssignOutOfBounds(h0, sum_of_arrays, s)
             THEN [error |-> "IndexError", raster |-> NoArray]
             ELSE [error |-> "none", raster |-> h3]

\* final_hydroperiod += hydroperiod (both of shape (x, y))
AddInPlace(f, h) ==
    [shape |-> f.shape, px |-> [k \in 1..Len(f.px) |-> f.px[k] + h.px[k]]]

RECURSIVE SumAll(_, _)
SumAll(all, f) ==
    IF Len(all) = 0 THEN f
    ELSE SumAll(Tail(all), AddInPlace(f, Head(all)))

ClampNonPositive(f) ==
    [shape |-> f.shape,
     px    |-> [k \in 1..Len(f.px) |-> IF f.px[k] <= 0 THEN -1 ELSE f.px[k]]]

\* final_hydroperiod[final_hydroperiod < 0] = -1
Clamp(f) ==
    [shape |-> f.shape,
     px    |-> [k \in 1..Len(f.px) |-> IF f.px[k] < 0 THEN -1 ELSE f.px[k]]]

Min2(a, b) == IF a <= b THEN a ELSE b

HydroperiodCalculation(db, arrs) ==
    IF Len(arrs) = 0
    THEN [error |-> "IndexError", all_hydroperiods |-> <<>>, final_hydroperiod |-> NoArray]
    ELSE LET shape == arrs[1].shape
             step  == [i \in 1..(Len(arrs) - 1) |->
                          HydroperiodBetweenTwoDates(shape, arrs[i], arrs[i + 1], db[i + 1])]
             bad   == {i \in 1..(Len(arrs) - 1) : step[i].error # "none"}
             all   == [i \in 1..(Len(arrs) - 1) |-> step[i].raster]
         IN  IF bad # {}
             THEN [error |-> step[CHOOSE i \in bad : \A j \in bad : i <= j].error,
                   all_hydroperiods |-> <<>>, final_hydroperiod |-> NoArray]
             ELSE [error |-> "none", all_hydroperiods |-> all,
                   final_hydroperiod |-> Clamp(SumAll(all, Full(shape, 0)))]

---------------------------------------------------------------------------
(* save_geotiff and create_RGB *)

\* What save_geotiff writes: the band, its nodata value, and whether a
\* geotransform and projection were copied (random_band is not None).
SavedGeotiff(f, random_band) ==
    [data |-> f, nodata |-> -1, georeferenced |-> random_band # "None"]

\* final_hydroperiod += 1
PlusOne(f) == [shape |-> f.shape, px |-> [k \in 1..Len(f.px) |-> f.px[k] + 1]]

RECURSIVE SeqMin(_)
SeqMin(s) == IF Len(s) = 1 THEN s[1] ELSE Min2(s[1], SeqMin(Tail(s)))

RECURSIVE SeqMax(_)
SeqMax(s) == IF Len(s) = 1 THEN s[1] ELSE Max2(s[1], SeqMax(Tail(s)))

\* The image: per pixel, white where the normalized value is 0, else the
\* place on the colour ramp as the fraction <<numerator, denominator>>.
\* With max = min the division is 0/0 = nan, which is no place on the ramp
\* and is not equal to 0 either.
RgbaData(f) ==
    LET lo == SeqMin(f.px)
        hi == SeqMax(f.px)
    IN  [k \in 1..Len(f.px) |->
            IF hi = lo THEN <<"nan", 0, 0>>
            ELSE IF f.px[k] = lo THEN <<"white", 0, hi - lo>>
            ELSE <<"crest", f.px[k] - lo, hi - lo>>]

---------------------------------------------------------------------------
(* State *)

VARIABLES
    files,              \* os.listdir(self.directory_path)
    pc,                 \* where the caller is
    idx,                \* the file the loop of read_tif_files_gdal is at
    tif_files,          \* self.tif_files
    random_band,        \* self.random_band
    dataset,            \* the local of read_tif_files_gdal
    days_between,       \* the caller's days_between
    arrays,             \* the caller's arrays
    all_hydroperiods,   \* the interval rasters of the last hydroperiod_calculation
    final_hydroperiod,  \* the caller's final_hydroperiod (one array object)
    geotiff,            \* output/hydroperiod_map.tif
    png,                \* output/hydroperiod_visualization.png
    error               \* the exception that ended the last call, or "none"

vars == <<files, pc, idx, tif_files, random_band, dataset, days_between, arrays,
          all_hydroperiods, final_hydroperiod, geotiff, png, error>>

NoFile == [data |-> NoArray, nodata |-> 0, georeferenced |-> FALSE]

\* HydroperiodCalculator(directory_path), before read_tif_files_gdal
Init ==
    /\ files \in Listings
    /\ pc = "read"
    /\ idx = 1
    /\ tif_files = <<>>
    /\ random_band = "None"
    /\ dataset = "unbound"
    /\ days_between = <<>>
    /\ arrays = <<>>
    /\ all_hydroperiods = <<>>
    /\ final_hydroperiod = NoArray
    /\ geotiff = NoFile
    /\ png = <<>>
    /\ error = "none"

---------------------------------------------------------------------------
(* read_tif_files_gdal: one pass of the loop per step *)

InLoop == pc = "read" /\ idx <= Len(files)

ReadUnchanged ==
    UNCHANGED <<files, pc, random_band, days_between, arrays, all_hydroperiods,
                final_hydroperiod, geotiff, png, error>>

\* not a .tif / .tiff name: nothing happens
SkipOtherFile ==
    /\ InLoop
    /\ ~IsTif(files[idx].name)
    /\ idx' = idx + 1
    /\ UNCHANGED <<tif_files, dataset>>
    /\ ReadUnchanged

\* strptime raises ValueError: "Ignored file ...", continue
IgnoreInvalidDate ==
    /\ InLoop
    /\ IsTif(files[idx].name)
    /\ ~ParseOK(DateStr(files[idx].name))
    /\ idx' = idx + 1
    /\ UNCHANGED <<tif_files, dataset>>
    /\ ReadUnchanged

\* the file is opened and read: self.tif_files[date_str] = tif_array
StoreArray ==
    /\ InLoop
    /\ IsTif(files[idx].name)
    /\ ParseOK(DateStr(files[idx].name))
    /\ files[idx].readable
    /\ dataset' = "Dataset"
    /\ tif_files' = DictSet(tif_files, DateStr(files[idx].name), files[idx].content)
    /\ idx' = idx + 1
    /\ ReadUnchanged

\* gdal.Open returns None for a file it cannot open; ReadAsArray on None
\* raises AttributeError, which is caught: "Error reading file ..."
OpenReturnsNone ==
    /\ InLoop
    /\ IsTif(files[idx].name)
    /\ ParseOK(DateStr(files[idx].name))
    /\ ~files[idx].readable
    /\ dataset' = "None"
    /\ idx' = idx + 1
    /\ UNCHANGED tif_files
    /\ ReadUnchanged

\* with gdal's exceptions enabled gdal.Open raises instead, before dataset
\* is assigned; the exception is caught the same way
OpenRaises ==
    /\ InLoop
    /\ IsTif(files[idx].name)
    /\ ParseOK(DateStr(files[idx].name))
    /\ ~files[idx].readable
    /\ idx' = idx + 1
    /\ UNCHANGED <<tif_files, dataset>>
    /\ ReadUnchanged

\* return dataset: UnboundLocalError when no file reached gdal.Open
ReadReturn(next) ==
    /\ pc = "read"
    /\ idx > Len(files)
    /\ IF dataset = "unbound"
       THEN pc' = "crashed" /\ error' = "UnboundLocalError"
       ELSE pc' = next /\ error' = "none"
    /\ UNCHANGED <<files, idx, tif_files, random_band, dataset, days_between, arrays,
                   all_hydroperiods, final_hydroperiod, geotiff, png>>

---------------------------------------------------------------------------
(* The other methods, as called from a place `at`, going on to `next` *)

Shapes(tf) == {tf[i].arr.shape : i \in 1..Len(tf)}

\* check_array_shapes: raises ValueError unless len(set(shapes)) is 1
ShapesInconsistent(tf) == Cardinality(Shapes(tf)) # 1

CallExtract(at, next) ==
    /\ pc = at
    /\ days_between' = ExtractDaysBetweenAndArrays(tif_files).days_between
    /\ arrays' = ExtractDaysBetweenAndArrays(tif_files).arrays
    /\ pc' = next
    /\ error' = "none"
    /\ UNCHANGED <<files, idx, tif_files, random_band, dataset, all_hydroperiods,
                   final_hydroperiod, geotiff, png>>

CallHydroperiodCalculation(at, next) ==
    /\ pc = at
    /\ LET res == HydroperiodCalculation(days_between, arrays)
       IN  /\ error' = res.error
           /\ all_hydroperiods' = res.all_hydroperiods
           /\ final_hydroperiod' = res.final_hydroperiod
           /\ pc' = IF res.error = "none" THEN next ELSE "crashed"
    /\ UNCHANGED <<files, idx, tif_files, random_band, dataset, days_between, arrays,
                   geotiff, png>>

CallCreateRGB(at, next) ==
    /\ pc = at
    /\ final_hydroperiod' = PlusOne(final_hydroperiod)
    /\ png' = RgbaData(PlusOne(final_hydroperiod))
    /\ pc' = next
    /\ UNCHANGED <<files, idx, tif_files, random_band, dataset, days_between, arrays,
                   all_hydroperiods, geotiff, error>>

---------------------------------------------------------------------------
(* The script (__main__) *)

MainRead == ReadReturn("check")

MainCheckArrayShapes ==
    /\ pc = "check"
    /\ IF ShapesInconsistent(tif_files)
       THEN pc' = "crashed" /\ error' = "ValueError"
       ELSE pc' = "extract" /\ error' = "none"
    /\ UNCHANGED <<files, idx, tif_files, random_band, dataset, days_between, arrays,
                   all_hydroperiods, final_hydroperiod, geotiff, png>>

MainExtract == CallExtract("extract", "hydro")

MainHydroperiodCalculation == CallHydroperiodCalculation("hydro", "save")

\* os.mkdir(output) and save_geotiff(final_hydroperiod, random_band, ...)
MainSaveGeotiff ==
    /\ pc = "save"
    /\ geotiff' = SavedGeotiff(final_hydroperiod, random_band)
    /\ pc' = "rgb"
    /\ UNCHANGED <<files, idx, tif_files, random_band, dataset, days_between, arrays,
                   all_hydroperiods, final_hydroperiod, png, error>>

MainCreateRGB == CallCreateRGB("rgb", "done")

Next ==
    \/ SkipOtherFile
    \/ IgnoreInvalidDate
    \/ StoreArray
    \/ OpenReturnsNone
    \/ OpenRaises
    \/ MainRead
    \/ MainCheckArrayShapes
    \/ MainExtract
    \/ MainHydroperiodCalculation
    \/ MainSaveGeotiff
    \/ MainCreateRGB

Spec == Init /\ [][Next]_vars

---------------------------------------------------------------------------
(* A caller of the methods that does not gate on check_array_shapes: it    *)
(* reads, may call check_array_shapes and catch its ValueError, then calls *)
(* extract_days_between_and_arrays, hydroperiod_calculation, create_RGB.   *)

DirectRead == ReadReturn("loaded")

DirectCheckArrayShapes ==
    /\ pc = "loaded"
    /\ error = "none"
    /\ ShapesInconsistent(tif_files)
    /\ error' = "ValueError"
    /\ UNCHANGED <<files, pc, idx, tif_files, random_band, dataset, days_between,
                   arrays, all_hydroperiods, final_hydroperiod, geotiff, png>>

DirectExtract == CallExtract("loaded", "extracted")

DirectHydroperiodCalculation == CallHydroperiodCalculation("extracted", "computed")

DirectCreateRGB == CallCreateRGB("computed", "done")

NextDirect ==
    \/ SkipOtherFile
    \/ IgnoreInvalidDate
    \/ StoreArray
    \/ OpenReturnsNone
    \/ OpenRaises
    \/ DirectRead
    \/ DirectCheckArrayShapes
    \/ DirectExtract
    \/ DirectHydroperiodCalculation
    \/ DirectCreateRGB

SpecDirect == Init /\ [][NextDirect]_vars

---------------------------------------------------------------------------
(* Properties *)

\* hydroperiod_calculation has returned to the script, create_RGB not yet run
Computed == pc \in {"save", "rgb"}

\* the pixel indices of the rasters the script accumulates over
Pixels == 1..Len(arrays[1].px)

Intervals == 1..(Len(arrays) - 1)

PairSum(i, k) == arrays[i].px[k] + arrays[i + 1].px[k]

\* The i-th earliest calendar day among the keys of tf, by rank.
NthDate(tf, i) ==
    LET days == ParsedKeys(tf)
    IN  CHOOSE o \in {days[j] : j \in 1..Len(tf)} :
            /\ Cardinality({j \in 1..Len(tf) : days[j] < o}) < i
            /\ i <= Cardinality({j \in 1..Len(tf) : days[j] <= o})

RECURSIVE PixelSum(_, _, _)
PixelSum(all, k, n) ==
    IF n = 0 THEN 0 ELSE PixelSum(all, k, n - 1) + all[n].px[k]

\* C1: every interval contribution is decided by the pair sum s and the gap
\* days_between[i+1] alone: 0 for s = 0, the integer half of the gap for
\* s = 1, the gap for s = 2, and the sentinel -1 for any other s.
IntervalContributionRule ==
    Computed =>
        /\ Len(all_hydroperiods) = Len(arrays) - 1
        /\ \A i \in Intervals : \A k \in Pixels :
              LET s   == PairSum(i, k)
                  gap == days_between[i + 1]
              IN  /\ all_hydroperiods[i].px[k] =
                        CASE s = 0 -> 0
                          [] s = 1 -> gap \div 2
                          [] s = 2 -> gap
                          [] OTHER -> -1
                  /\ all_hydroperiods[i].px[k] \in {-1, 0, gap \div 2, gap}

\* A changed pixel over an odd gap of 5 days counted as 2 days, next to an
\* interval whose pair sum is outside {0, 1, 2} and is flagged -1.
IntervalContributionWitness ==
    /\ Computed
    /\ \E i \in Intervals : \E k \in Pixels :
          PairSum(i, k) = 1 /\ days_between[i + 1] = 5 /\ all_hydroperiods[i].px[k] = 2
    /\ \E i \in Intervals : \E k \in Pixels :
          PairSum(i, k) \notin {0, 1, 2} /\ all_hydroperiods[i].px[k] = -1

\* C2: the arrays come back in ascending date order: arrays[i] is a raster
\* stored under the i-th earliest date, and days_between[i] is the number of
\* days between the dates of arrays[i-1] and arrays[i].
ArraysInDateOrder ==
    pc \in {"hydro", "save", "rgb", "done"} =>
        \A i \in 1..Len(arrays) :
            \E j \in 1..Len(tif_files) :
                /\ Strptime(tif_files[j].key) = NthDate(tif_files, i)
                /\ arrays[i] = tif_files[j].arr

DistinctDates(tf) ==
    \A i, j \in 1..Len(tf) : i # j => Strptime(tf[i].key) # Strptime(tf[j].key)

Orderings(n) == {f \in [1..n -> 1..n] : \A a, b \in 1..n : a # b => f[a] # f[b]}

\* C3: with distinct dates, every other insertion order of the same samples
\* gives the same final raster.
OrderIndependence ==
    (Computed /\ DistinctDates(tif_files)) =>
        \A f \in Orderings(Len(tif_files)) :
            LET other == [i \in 1..Len(tif_files) |-> tif_files[f[i]]]
                ex    == ExtractDaysBetweenAndArrays(other)
            IN  HydroperiodCalculation(ex.days_between, ex.arrays).final_hydroperiod
                    = final_hydroperiod

\* C4: hydroperiod_calculation returns a raster only when it was given at
\* least two samples (with fewer it ends in the insufficient-data error),
\* and with exactly two the raster is the clamped single interval.
MinimumCardinality ==
    /\ pc \in {"save", "rgb", "done"} => Len(arrays) >= 2
    /\ (Computed /\ Len(arrays) = 2) =>
          final_hydroperiod = Clamp(all_hydroperiods[1])

\* C5: a pixel value other than 0 or 1 on either side of an interval makes
\* that interval's contribution the sentinel -1.
ContaminatedInputFlagged ==
    Computed =>
        \A i \in Intervals : \A k \in Pixels :
            (arrays[i].px[k] \notin {0, 1} \/ arrays[i + 1].px[k] \notin {0, 1})
                => all_hydroperiods[i].px[k] = -1

\* C6: the final value of a pixel is the sum S of its interval
\* contributions when S >= 0 and -1 when S < 0, clamped once at the end; so
\* it is -1 or non-negative, a sole invalid interval ends at -1, and an
\* invalid interval with a valid one of 50 ends at 49.
FinalIsClampedSum ==
    Computed =>
        \A k \in Pixels :
            LET S == PixelSum(all_hydroperiods, k, Len(all_hydroperiods))
                v == final_hydroperiod.px[k]
            IN  /\ v = IF S >= 0 THEN S ELSE -1
                /\ v = -1 \/ v >= 0
                /\ (Len(all_hydroperiods) = 1 /\ all_hydroperiods[1].px[k] = -1)
                      => v = -1
                /\ (/\ Len(all_hydroperiods) = 2
                    /\ {all_hydroperiods[1].px[k], all_hydroperiods[2].px[k]} = {-1, 50})
                      => v = 49

\* An invalid interval and a valid one of 50 days at one pixel, ending at 49.
FinalIsClampedSumWitness ==
    /\ Computed
    /\ Len(all_hydroperiods) = 2
    /\ \E k \in Pixels :
          /\ all_hydroperiods[1].px[k] = -1
          /\ all_hydroperiods[2].px[k] = 50
          /\ final_hydroperiod.px[k] = 49

\* C7: check_array_shapes fails exactly when the store holds more than one
\* distinct shape, and its failure halts the script before any extraction
\* or accumulation.
ShapeCheckExact ==
    /\ (pc = "crashed" /\ error = "ValueError") =>
          /\ Cardinality(Shapes(tif_files)) > 1
          /\ days_between = <<>> /\ arrays = <<>> /\ final_hydroperiod = NoArray
    /\ pc \in {"extract", "hydro", "save", "rgb", "done"} =>
          Cardinality(Shapes(tif_files)) <= 1

\* C8: after create_RGB the final raster still holds the values the
\* accumulator returned.
CreateRGBReadOnly ==
    pc = "done" =>
        final_hydroperiod
            = HydroperiodCalculation(days_between, arrays).final_hydroperiod

\* The files the loop of read_tif_files_gdal has stored so far.
Stored(i) ==
    /\ i < idx
    /\ IsTif(files[i].name)
    /\ ParseOK(DateStr(files[i].name))
    /\ files[i].readable

FileDay(i) == Strptime(DateStr(files[i].name))

\* C9: the store holds at most one sample per calendar date, for a date
\* stored more than once the raster of the last insertion, and so every gap
\* between consecutive sorted samples is strictly positive.
DateUniqueness ==
    /\ DistinctDates(tif_files)
    /\ \A e \in 1..Len(tif_files) : \A i \in 1..Len(files) :
          (/\ Stored(i)
           /\ FileDay(i) = Strptime(tif_files[e].key)
           /\ \A j \in 1..Len(files) :
                 (Stored(j) /\ FileDay(j) = FileDay(i)) => j <= i)
              => tif_files[e].arr = files[i].content
    /\ pc \in {"hydro", "save", "rgb", "done"} =>
          \A i \in 2..Len(days_between) : days_between[i] > 0

Extracted == pc \in {"extracted", "computed", "done"}

GapsOfSortedDates ==
    /\ days_between[1] = 0
    /\ \A i \in 2..Len(days_between) :
          /\ days_between[i] = NthDate(tif_files, i) - NthDate(tif_files, i - 1)
          /\ days_between[i] >= 0

\* C10 as stated: for every store content days_between has one entry per
\* sample, starts with 0, and otherwise holds the non-negative day
\* differences of the consecutive dates in ascending order.
GapMonotonicity ==
    Extracted => (Len(days_between) = Len(tif_files) /\ GapsOfSortedDates)

\* C10 amended: for every store with at least one sample days_between has
\* one entry per sample, starts with 0, and otherwise holds the non-negative
\* day differences of the consecutive dates in ascending order; for the
\* empty store it is the single entry 0.
GapMonotonicityNonEmpty ==
    Extracted =>
        /\ Len(tif_files) >= 1 => Len(days_between) = Len(tif_files)
        /\ Len(tif_files) = 0 => days_between = <<0>>
        /\ GapsOfSortedDates

\* Three samples stored out of date order, with the gaps 5 and 50.
GapMonotonicityWitness ==
    /\ Extracted
    /\ Len(tif_files) = 3
    /\ days_between = <<0, 5, 50>>
    /\ InsertionOrderDates(tif_files) # SortedDates(tif_files)

=============================================================================
